---- MODULE Spec2Model ----
(***************************************************************************)
(* Model of the soil-monitor service: the hardware module's import guard   *)
(* and backend registry (hardware/soil_monitor.py), the module-level       *)
(* facade of services/soil.py, the health service (services/health.py)     *)
(* and the two Flask routes of app.py.                                     *)
(*                                                                         *)
(* Conventions.  Python's None is the string NONE.  A temperature is an    *)
(* integer number of hundredths of a degree Celsius, so that round(x, 1)   *)
(* is a real conversion; Celsius(n) is the Python number n.  The clock is  *)
(* counted in ticks, TicksPerSecond of them to a second, so that int()     *)
(* truncates.                                                              *)
(***************************************************************************)
EXTENDS Integers, Sequences, FiniteSets, TLC

----------------------------------------------------------------------------
(* Bounds of the model *)

MaxTime == 3            \* the clock runs from 0 to MaxTime ticks
TicksPerSecond == 2     \* clock resolution
MaxDriverReads == 4     \* cap on the number of driver transactions counted

----------------------------------------------------------------------------
(* Python values *)

NONE == "<None>"

Truthy(v) == v # NONE /\ v # ""

\* A name that is not bound yet, or bound to an object x.
Unbound == <<>>
Bound(x) == <<x>>
Obj(o) == o[1]

Celsius(n) == n * 100

NotReadyValue == -1

MockedClass == "_MockedSoilMonitor"
AdafruitClass == "_AdafruitStemmaSoilMonitor"

\* Values the environment variable soil_monitor can have at startup.
EnvValues == {NONE, "", "mocked", "adafruitstemma", "MOCKED", "bogus"}

\* What an import statement of the guard can do on a platform.
ImportResults == {"ok", "NotImplementedError", "ImportError"}

\* A platform: what importing board does and, when that succeeds, what
\* importing adafruit_seesaw.seesaw does ("skipped" when it is not reached).
Platforms ==
    { [board |-> b, seesaw |-> "skipped"] : b \in ImportResults \ {"ok"} }
    \cup { [board |-> "ok", seesaw |-> s] : s \in ImportResults }

\* Readings the seesaw driver can deliver (raw moisture, temperature in
\* hundredths of a degree before rounding).
DriverMoisture == {200, 1015, 2000}
DriverTemps == {2134, 2135, 2145, 2150}

\* Samples of random.uniform(0, 50), in hundredths of a degree.
MockedTemps == {0, 4999}

VARIABLES
    pc,             \* position in the startup sequence of app.py
    env,            \* value of os.environ['soil_monitor'], NONE when unset
    platform,       \* what importing board / adafruit_seesaw does here
    sys_modules,    \* the driver modules present in sys.modules
    registry,       \* _soil_monitor_factory._soil_monitors
    keysHanded,     \* the keys get_soil_monitor was called with, in order
    instances,      \* the backend instances constructed so far, in order
    soil_monitor,   \* services.soil.soil_monitor (module-level facade)
    health_service, \* app.health_service
    now,            \* time.time(), in ticks
    driverReads,    \* number of transactions made with the seesaw driver
    lastRoot,       \* last response of GET /
    lastHealth,     \* last response of GET /health
    error           \* the exception that ended the process, if any

vars == <<pc, env, platform, sys_modules, registry, keysHanded, instances,
          soil_monitor, health_service, now, driverReads, lastRoot,
          lastHealth, error>>

----------------------------------------------------------------------------
(* Exceptions and call outcomes *)

Raised(kind, arg, at) ==
    [raised |-> TRUE, obj |-> Unbound,
     error |-> Bound([kind |-> kind, arg |-> arg, at |-> at])]

Returned(obj) == [raised |-> FALSE, obj |-> Bound(obj), error |-> Unbound]

----------------------------------------------------------------------------
(* hardware/soil_monitor.py: import guard *)

\* The modules the guard leaves in sys.modules: a module whose import raised
\* is not kept, and the second import is not attempted once the first raised.
ImportedModules(p) ==
    IF p.board # "ok" THEN {}
    ELSE IF p.seesaw # "ok" THEN {"board"}
    ELSE {"board", "adafruit_seesaw.seesaw"}

\* The exception the try block ends with, "ok" if none.
ImportGuardResult(p) == IF p.board # "ok" THEN p.board ELSE p.seesaw

\* except NotImplementedError: every other exception leaves the module.
ImportGuardCatches(result) == result = "NotImplementedError"

----------------------------------------------------------------------------
(* hardware/soil_monitor.py: the backends *)

\* _AdafruitStemmaSoilMonitor.__init__: the outcomes of one construction.
\* board.I2C() and Seesaw(...) are driver calls that either return or raise.
Adafruit_init(mods) ==
    LET loaded == ("board" \in mods) /\ ("adafruit_seesaw.seesaw" \in mods)
    IN  IF loaded
        THEN { Returned([cls |-> AdafruitClass, loaded |-> TRUE]),
               Raised("DriverError", "i2c", "_AdafruitStemmaSoilMonitor.__init__") }
        ELSE { Returned([cls |-> AdafruitClass, loaded |-> FALSE]) }

Mocked_init == { Returned([cls |-> MockedClass]) }

\* round(x, 1) on hundredths: to the nearest tenth, ties to the even tenth.
Round1(h) ==
    LET q == h \div 10
        r == h % 10
    IN  IF r < 5 THEN q * 10
        ELSE IF r > 5 THEN (q + 1) * 10
        ELSE IF q % 2 = 0 THEN q * 10 ELSE (q + 1) * 10

\* random.randint(a, b): both ends included.
RandInt(a, b) == a .. b

Reading(v, reads) == [value |-> v, reads |-> reads]

Adafruit_get_soil_saturation(b) ==
    IF b.loaded
    THEN { Reading(m, 1) : m \in DriverMoisture }
    ELSE { Reading(NotReadyValue, 0) }

Adafruit_get_air_temp_unchecked(b) ==
    { Reading(Round1(t), 1) : t \in DriverTemps }

Adafruit_get_air_temp(b) ==
    IF b.loaded
    THEN { Reading(Round1(t), 1) : t \in DriverTemps }
    ELSE { Reading(Celsius(NotReadyValue), 0) }

Adafruit_get_name(b) == "Adafruit Stemma"

Mocked_get_soil_saturation(b) == { Reading(s, 0) : s \in RandInt(0, 101) }

Mocked_get_air_temp(b) == { Reading(t, 0) : t \in MockedTemps }

Mocked_get_name(b) == "Mocked Soil Monitor"

\* Dynamic dispatch on the class of the backend.
get_soil_saturation(b) ==
    IF b.cls = MockedClass THEN Mocked_get_soil_saturation(b)
    ELSE Adafruit_get_soil_saturation(b)

get_air_temp(b) ==
    IF b.cls = MockedClass THEN Mocked_get_air_temp(b)
    ELSE Adafruit_get_air_temp(b)

get_name(b) ==
    IF b.cls = MockedClass THEN Mocked_get_name(b) ELSE Adafruit_get_name(b)

Construct(cls, mods) ==
    IF cls = MockedClass THEN Mocked_init ELSE Adafruit_init(mods)

----------------------------------------------------------------------------
(* hardware/soil_monitor.py: SoilMonitorFactory and the SoilMonitor facade *)

register_soil_monitor(reg, key, cls) ==
    [k \in DOMAIN reg \cup {key} |-> IF k = key THEN cls ELSE reg[k]]

EmptyRegistry == [k \in {} |-> NONE]

get_soil_monitor_fallback(reg, key, mods) ==
    IF key \notin DOMAIN reg THEN Construct(MockedClass, mods)
    ELSE Construct(reg[key], mods)

\* self._soil_monitors[key] raises KeyError for a key that is not in the
\* dict, before the test of line 112 is reached.
get_soil_monitor(reg, key, mods) ==
    IF key \notin DOMAIN reg
    THEN { Raised("KeyError", key, "SoilMonitorFactory.get_soil_monitor") }
    ELSE IF ~Truthy(reg[key])
    THEN { Raised("ValueError", key, "SoilMonitorFactory.get_soil_monitor") }
    ELSE Construct(reg[key], mods)

SoilMonitorKey_none_only(envval) == IF envval = NONE THEN "mocked" ELSE envval

\* SoilMonitor.__init__, lines 136-138: the key handed to the factory.
SoilMonitorKey(envval) == IF ~Truthy(envval) THEN "mocked" ELSE envval

\* The facade object: the key it resolved and the index of its backend.
Facade(key, idx) == [soil_monitor_name |-> key, backend |-> idx]

----------------------------------------------------------------------------
(* services *)

SoilStatus_no_temp(saturation, temp) == [saturation |-> saturation]

\* SoilService.get_soil_status: the dict returned.
SoilStatus(saturation, temp) == [saturation |-> saturation, temp |-> temp]

\* int(x): truncation towards zero of a number of ticks to whole seconds.
IntSeconds(ticks) ==
    IF ticks >= 0 THEN ticks \div TicksPerSecond
    ELSE -((-ticks) \div TicksPerSecond)

total_app_uptime_seconds_reversed(t, start) == IntSeconds(start - t)

\* HealthService._get_total_app_uptime_seconds
total_app_uptime_seconds(t, start) == IntSeconds(t - start)

\* HealthService.get_health: the dict returned.
Health(uptime, name) == [uptime |-> uptime, soilMonitor |-> name]

Response(body) == [status |-> 200, body |-> body]

----------------------------------------------------------------------------
(* The process *)

Init ==
    /\ pc = "import_hardware"
    /\ env \in EnvValues
    /\ platform \in Platforms
    /\ sys_modules = {}
    /\ registry = EmptyRegistry
    /\ keysHanded = <<>>
    /\ instances = <<>>
    /\ soil_monitor = Unbound
    /\ health_service = Unbound
    /\ now = 0
    /\ driverReads = 0
    /\ lastRoot = Unbound
    /\ lastHealth = Unbound
    /\ error = Unbound

Crash(e) ==
    /\ pc' = "crashed"
    /\ error' = e

\* hardware/soil_monitor.py, lines 6-13: the guarded imports.
ImportGuard ==
    /\ pc = "import_hardware"
    /\ sys_modules' = ImportedModules(platform)
    /\ LET result == ImportGuardResult(platform)
       IN  IF result = "ok" \/ ImportGuardCatches(result)
           THEN pc' = "register" /\ error' = error
           ELSE Crash(Bound([kind |-> result, arg |-> "adafruit", at |-> "import guard"]))
    /\ UNCHANGED <<env, platform, registry, keysHanded, instances, soil_monitor,
                   health_service, now, driverReads, lastRoot, lastHealth>>

\* hardware/soil_monitor.py, lines 295-297: the factory and its two entries.
RegisterBackends ==
    /\ pc = "register"
    /\ registry' = register_soil_monitor(
                       register_soil_monitor(EmptyRegistry, "adafruitstemma", AdafruitClass),
                       "mocked", MockedClass)
    /\ pc' = "soil_module"
    /\ UNCHANGED <<env, platform, sys_modules, keysHanded, instances,
                   soil_monitor, health_service, now, driverReads, lastRoot,
                   lastHealth, error>>

\* services/soil.py, line 3: soil_monitor = SoilMonitor(), run when app.py
\* imports the module.
SoilModuleInit ==
    /\ pc = "soil_module"
    /\ LET key == SoilMonitorKey(env)
       IN  /\ keysHanded' = Append(keysHanded, key)
           /\ \E out \in get_soil_monitor(registry, key, sys_modules) :
                IF out.raised
                THEN /\ Crash(out.error)
                     /\ UNCHANGED <<instances, soil_monitor>>
                ELSE /\ instances' = Append(instances, Obj(out.obj))
                     /\ soil_monitor' = Bound(Facade(key, Len(instances) + 1))
                     /\ pc' = "health_service"
                     /\ error' = error
    /\ UNCHANGED <<env, platform, sys_modules, registry, health_service, now,
                   driverReads, lastRoot, lastHealth>>

\* The same constructor with the simulated backend's key in place of the
\* configured one.
HealthService_init_mocked ==
    /\ pc = "health_service"
    /\ keysHanded' = Append(keysHanded, "mocked")
    /\ \E out \in get_soil_monitor(registry, "mocked", sys_modules) :
         /\ ~out.raised
         /\ instances' = Append(instances, Obj(out.obj))
         /\ health_service' =
                Bound([start_time |-> now,
                       soil_monitor |-> Facade("mocked", Len(instances) + 1)])
    /\ pc' = "serving"
    /\ UNCHANGED <<env, platform, sys_modules, registry, soil_monitor, now,
                   driverReads, lastRoot, lastHealth, error>>

\* The same constructor with the facade of services.soil reused.
HealthService_init_shared ==
    /\ pc = "health_service"
    /\ health_service' = Bound([start_time |-> now, soil_monitor |-> Obj(soil_monitor)])
    /\ pc' = "serving"
    /\ UNCHANGED <<env, platform, sys_modules, registry, keysHanded, instances,
                   soil_monitor, now, driverReads, lastRoot, lastHealth, error>>

\* app.py, line 8: health_service = HealthService(); health.py, lines 18-20.
HealthService_init ==
    /\ pc = "health_service"
    /\ LET key == SoilMonitorKey(env)
       IN  /\ keysHanded' = Append(keysHanded, key)
           /\ \E out \in get_soil_monitor(registry, key, sys_modules) :
                IF out.raised
                THEN /\ Crash(out.error)
                     /\ UNCHANGED <<instances, health_service>>
                ELSE /\ instances' = Append(instances, Obj(out.obj))
                     /\ health_service' =
                            Bound([start_time |-> now,
                                   soil_monitor |-> Facade(key, Len(instances) + 1)])
                     /\ pc' = "serving"
                     /\ error' = error
    /\ UNCHANGED <<env, platform, sys_modules, registry, soil_monitor, now,
                   driverReads, lastRoot, lastHealth>>

\* app.py, lines 10-12: GET / .
GetRoot ==
    /\ pc = "serving"
    /\ LET b == instances[Obj(soil_monitor).backend]
       IN  \E s \in get_soil_saturation(b), t \in get_air_temp(b) :
             /\ driverReads + s.reads + t.reads <= MaxDriverReads
             /\ driverReads' = driverReads + s.reads + t.reads
             /\ lastRoot' = Bound(Response(SoilStatus(s.value, t.value)))
    /\ UNCHANGED <<pc, env, platform, sys_modules, registry, keysHanded,
                   instances, soil_monitor, health_service, now, lastHealth, error>>

\* app.py, lines 14-16: GET /health .
GetHealth ==
    /\ pc = "serving"
    /\ LET hs == Obj(health_service)
           b == instances[hs.soil_monitor.backend]
           uptime == total_app_uptime_seconds(now, hs.start_time)
       IN  lastHealth' = Bound(Response(Health(uptime, get_name(b))))
    /\ UNCHANGED <<pc, env, platform, sys_modules, registry, keysHanded,
                   instances, soil_monitor, health_service, now, driverReads,
                   lastRoot, error>>

\* The clock advances while the process lives.
Tick ==
    /\ pc # "crashed"
    /\ now < MaxTime
    /\ now' = now + 1
    /\ UNCHANGED <<pc, env, platform, sys_modules, registry, keysHanded,
                   instances, soil_monitor, health_service, driverReads,
                   lastRoot, lastHealth, error>>

Next ==
    \/ ImportGuard
    \/ RegisterBackends
    \/ SoilModuleInit
    \/ HealthService_init
    \/ GetRoot
    \/ GetHealth
    \/ Tick

Spec == Init /\ [][Next]_vars

----------------------------------------------------------------------------
(* Properties *)

RegisteredKeys == {"adafruitstemma", "mocked"}

UnknownKeyConfigured == Truthy(env) /\ env \notin RegisteredKeys

\* The backend behind GET / and the backend behind GET /health.
SoilBackend == instances[Obj(soil_monitor).backend]
HealthBackend == instances[Obj(health_service).soil_monitor.backend]

NotReady(b) == b.cls = AdafruitClass /\ ~b.loaded

\* C1: a call of get_soil_monitor with a key that was never registered ends
\* with the ValueError that carries the key, and returns no backend.
C1_UnknownKeyRaisesValueError ==
    (keysHanded # <<>> /\ keysHanded[Len(keysHanded)] \notin RegisteredKeys) =>
        /\ Len(instances) < Len(keysHanded)
        /\ error # Unbound
        /\ Obj(error).kind = "ValueError"
        /\ Obj(error).arg = keysHanded[Len(keysHanded)]

\* C2: every saturation the simulated backend returns is an integer from 0
\* to 100.
C2_MockedSaturationIsPercentage ==
    (lastRoot # Unbound /\ SoilBackend.cls = MockedClass) =>
        Obj(lastRoot).body.saturation \in 0 .. 100

\* C3: loading the hardware module and constructing the hardware backend
\* never raise; unavailable libraries or a failing bus leave loaded False.
C3_HardwareConstructionNeverRaises ==
    /\ error # Unbound =>
          Obj(error).at \notin {"import guard", "_AdafruitStemmaSoilMonitor.__init__"}
    /\ (pc \notin {"import_hardware", "crashed"} /\ ImportGuardResult(platform) # "ok") =>
          \A i \in 1 .. Len(instances) :
              instances[i].cls = AdafruitClass => ~instances[i].loaded

\* C4: a hardware backend constructed not ready stays not ready, answers
\* get_soil_saturation and get_air_temp with -1 without a driver
\* transaction, and get_name with 'Adafruit Stemma'.
C4_NotReadyReturnsSentinel ==
    pc = "serving" =>
        /\ NotReady(SoilBackend) =>
              /\ driverReads = 0
              /\ lastRoot # Unbound =>
                    /\ Obj(lastRoot).body.saturation = -1
                    /\ Obj(lastRoot).body.temp = Celsius(-1)
        /\ NotReady(HealthBackend) =>
              (lastHealth # Unbound =>
                    Obj(lastHealth).body.soilMonitor = "Adafruit Stemma")

C4_Witness ==
    /\ pc = "serving"
    /\ NotReady(SoilBackend)
    /\ NotReady(HealthBackend)
    /\ lastRoot # Unbound
    /\ lastHealth # Unbound

\* C5: with soil_monitor unset or empty the facade resolves 'mocked' and its
\* backend is the simulated one; any other value is handed to the factory
\* unchanged.
C5_DefaultKeyIsMocked ==
    /\ \A i \in 1 .. Len(keysHanded) :
          keysHanded[i] = (IF env = NONE \/ env = "" THEN "mocked" ELSE env)
    /\ ((env = NONE \/ env = "") /\ soil_monitor # Unbound) =>
          /\ Obj(soil_monitor).soil_monitor_name = "mocked"
          /\ SoilBackend.cls = MockedClass

C5_Witness ==
    /\ env = ""
    /\ soil_monitor # Unbound
    /\ SoilBackend.cls = MockedClass
    /\ keysHanded[1] = "mocked"

\* C6: with a non-empty unregistered key the process fails while the
\* services are constructed: no facade is ever bound, the process never
\* reaches serving and no request is ever answered.
C6_UnknownKeyFailsAtStartup ==
    UnknownKeyConfigured =>
        /\ pc \in {"import_hardware", "register", "soil_module", "crashed"}
        /\ soil_monitor = Unbound
        /\ health_service = Unbound
        /\ lastRoot = Unbound
        /\ lastHealth = Unbound
        /\ Len(keysHanded) >= 1 => pc = "crashed" /\ error # Unbound

C6_Witness ==
    /\ UnknownKeyConfigured
    /\ pc = "crashed"
    /\ Len(keysHanded) = 1
    /\ Obj(error).at = "SoilMonitorFactory.get_soil_monitor"

\* C7: a GET /health response has exactly the keys uptime and soilMonitor,
\* and soilMonitor is the fixed name of the backend GET / reads from.
C7_HealthNamesActiveBackend ==
    lastHealth # Unbound =>
        /\ DOMAIN Obj(lastHealth).body = {"uptime", "soilMonitor"}
        /\ SoilBackend.cls = MockedClass =>
              Obj(lastHealth).body.soilMonitor = "Mocked Soil Monitor"
        /\ SoilBackend.cls = AdafruitClass =>
              Obj(lastHealth).body.soilMonitor = "Adafruit Stemma"

C7_Witness ==
    /\ lastHealth # Unbound
    /\ lastRoot # Unbound
    /\ SoilBackend.cls = AdafruitClass
    /\ SoilBackend.loaded

====
